---- MODULE Spec2Model ----
(***************************************************************************)
(* Sparse state-vector simulator: quantum/ket.rs, quantum/state.rs and     *)
(* gates/gate.rs.                                                          *)
(*                                                                         *)
(* Amplitudes.  The code computes with Complex<f64>.  Every amplitude the  *)
(* gates can produce from the inputs used here lies in the ring            *)
(* Z[w][1/2], w = e^(i*pi/4), and is kept exactly:                         *)
(*    ring element  [a, b, c, d, e]  =  (a + b*w + c*w^2 + d*w^3) / 2^e    *)
(* in lowest terms (e minimal).  1/sqrt(2) = (w - w^3)/2.                  *)
(* An amplitude is two ring elements, [hi, lo] = hi + lo * 1e-6, so that   *)
(* values of the order of the code's 1e-6 threshold and values of order 1  *)
(* are both exact with small integers.  Floating-point rounding is not     *)
(* modelled.                                                               *)
(***************************************************************************)
EXTENDS Integers, Sequences, FiniteSets, TLC

(***************************************************************************)
(* Bounds of the model.                                                    *)
(***************************************************************************)
MaxQubits == 2
MaxSteps == 1
MaxListLen == 2
MaxOrderedKets == 3

(***************************************************************************)
(* Exact ring arithmetic standing for Complex<f64>.                        *)
(***************************************************************************)
RECURSIVE Pow2(_)
Pow2(n) == IF n = 0 THEN 1 ELSE 2 * Pow2(n - 1)

IsEven(n) == n % 2 = 0

R(a, b, c, d, e) == [a |-> a, b |-> b, c |-> c, d |-> d, e |-> e]

RZero == R(0, 0, 0, 0, 0)
ROne == R(1, 0, 0, 0, 0)

RECURSIVE RReduce(_)
RReduce(x) ==
    IF x.a = 0 /\ x.b = 0 /\ x.c = 0 /\ x.d = 0 THEN RZero
    ELSE IF x.e > 0 /\ IsEven(x.a) /\ IsEven(x.b) /\ IsEven(x.c) /\ IsEven(x.d)
         THEN RReduce(R(x.a \div 2, x.b \div 2, x.c \div 2, x.d \div 2, x.e - 1))
         ELSE x

RScale(x, e) ==
    LET m == Pow2(e - x.e) IN R(x.a * m, x.b * m, x.c * m, x.d * m, e)

RAdd(x, y) ==
    LET e == IF x.e > y.e THEN x.e ELSE y.e
        u == RScale(x, e)
        v == RScale(y, e)
    IN RReduce(R(u.a + v.a, u.b + v.b, u.c + v.c, u.d + v.d, e))

RNeg(x) == R(-x.a, -x.b, -x.c, -x.d, x.e)

RSub(x, y) == RAdd(x, RNeg(y))

RConj(x) == R(x.a, -x.d, -x.c, -x.b, x.e)

RMul(x, y) ==
    RReduce(R(x.a * y.a - x.b * y.d - x.c * y.c - x.d * y.b,
              x.a * y.b + x.b * y.a - x.c * y.d - x.d * y.c,
              x.a * y.c + x.b * y.b + x.c * y.a - x.d * y.d,
              x.a * y.d + x.b * y.c + x.c * y.b + x.d * y.a,
              x.e + y.e))

(* The factors the gates multiply by. *)
RInvSqrt2 == R(0, 1, 0, -1, 1)
ROmega == R(0, 1, 0, 0, 0)
ROmegaInv == R(0, 0, 0, -1, 0)
RMinusOne == R(-1, 0, 0, 0, 0)

(* Reals of the form (p + q*sqrt(2)) / 2^e. *)
Q(p, q, e) == [p |-> p, q |-> q, e |-> e]

QZero == Q(0, 0, 0)

RECURSIVE QReduce(_)
QReduce(x) ==
    IF x.p = 0 /\ x.q = 0 THEN QZero
    ELSE IF x.e > 0 /\ IsEven(x.p) /\ IsEven(x.q)
         THEN QReduce(Q(x.p \div 2, x.q \div 2, x.e - 1))
         ELSE x

QAdd(x, y) ==
    LET e == IF x.e > y.e THEN x.e ELSE y.e
        mx == Pow2(e - x.e)
        my == Pow2(e - y.e)
    IN QReduce(Q(x.p * mx + y.p * my, x.q * mx + y.q * my, e))

QNeg(x) == Q(-x.p, -x.q, x.e)

QSub(x, y) == QAdd(x, QNeg(y))

Sgn(n) == IF n > 0 THEN 1 ELSE IF n < 0 THEN -1 ELSE 0

(* The sign of p + q*sqrt(2). *)
QSign(x) ==
    IF x.q = 0 THEN Sgn(x.p)
    ELSE IF x.p = 0 THEN Sgn(x.q)
    ELSE IF Sgn(x.p) = Sgn(x.q) THEN Sgn(x.p)
    ELSE IF x.p * x.p > 2 * x.q * x.q THEN Sgn(x.p) ELSE Sgn(x.q)

(* Re(x) = a + (b - d)/sqrt(2). *)
RRe(x) == QReduce(Q(2 * x.a, x.b - x.d, x.e + 1))

(* |x|^2. *)
RNormSqr(x) == RRe(RMul(x, RConj(x)))

(***************************************************************************)
(* Complex<f64> amplitudes: hi + lo * 1e-6.                                *)
(***************************************************************************)
Amp(hi, lo) == [hi |-> hi, lo |-> lo]

AmpZero == Amp(RZero, RZero)
AmpOne == Amp(ROne, RZero)
AmpMinusOne == Amp(RMinusOne, RZero)
AmpTol == Amp(RZero, ROne)
AmpMinusTol == Amp(RZero, RMinusOne)
AmpHalfTol == Amp(RZero, R(1, 0, 0, 0, 1))
AmpNearMinusTwo == Amp(R(-2, 0, 0, 0, 0), R(2, 0, 0, 0, 0))

AmpAdd(x, y) == Amp(RAdd(x.hi, y.hi), RAdd(x.lo, y.lo))

AmpSub(x, y) == Amp(RSub(x.hi, y.hi), RSub(x.lo, y.lo))

AmpMul(x, r) == Amp(RMul(x.hi, r), RMul(x.lo, r))

(* The 1e-6 of add_or_insert, in units of lo. *)
TolUnits == 1

(* amplitude.norm() == 0.0 *)
NormIsZero(z) == z.hi = RZero /\ z.lo = RZero

(* amplitude.norm() > 1e-6.  A non-zero hi of the sizes reached here is    *)
(* larger than 1e-6 * (1 + |lo|) by orders of magnitude.                   *)
NormGtTol(z) ==
    \/ z.hi # RZero
    \/ QSign(QSub(RNormSqr(z.lo), Q(TolUnits * TolUnits, 0, 0))) > 0

(***************************************************************************)
(* quantum/ket.rs                                                          *)
(***************************************************************************)
Bit == {0, 1}

Ket(bits, amplitude) == [bits |-> bits, amplitude |-> amplitude]

from_bit_vec(ket_bits, amplitude) == Ket(ket_bits, amplitude)

new_zero_ket(num_qubits) == from_bit_vec([i \in 1..num_qubits |-> 0], AmpOne)

(* bits.get(index) is Some: indices are 0-based in the code. *)
InBounds(ket, index) == index < Len(ket.bits)

get(ket, index) == ket.bits[index + 1] = 1

flip(ket, index) ==
    Ket([ket.bits EXCEPT ![index + 1] = 1 - ket.bits[index + 1]], ket.amplitude)

(* Mutant: equality that also compares the amplitude, as a derived         *)
(* PartialEq would.                                                        *)
KetEq_derived(k1, k2) == k1.bits = k2.bits /\ k1.amplitude = k2.amplitude

(* impl PartialEq for Ket (and the Hash that goes with it): bits only. *)
KetEq(k1, k2) == k1.bits = k2.bits

(***************************************************************************)
(* quantum/state.rs                                                        *)
(***************************************************************************)
State(num_qubits, kets) == [num_qubits |-> num_qubits, kets |-> kets]

State_new(num_qubits) == State(num_qubits, {})

(* HashSet<Ket>::take / insert / remove, under Ket's Eq. *)
HashFind(kets, ket) == {k \in kets : KetEq(k, ket)}

HashInsert(kets, ket) == IF HashFind(kets, ket) # {} THEN kets ELSE kets \cup {ket}

HashRemove(kets, ket) ==
    IF HashFind(kets, ket) = {} THEN kets
    ELSE kets \ {CHOOSE k \in HashFind(kets, ket) : TRUE}

(* The branch add_or_insert takes. *)
add_or_insert_path(self, ket) ==
    IF NormIsZero(ket.amplitude) THEN "ignored"
    ELSE IF HashFind(self.kets, ket) = {} THEN "inserted"
    ELSE LET found_ket == CHOOSE k \in HashFind(self.kets, ket) : TRUE
         IN IF NormGtTol(AmpAdd(found_ket.amplitude, ket.amplitude))
            THEN "merged" ELSE "dropped"

(* Mutant: the stored amplitude is overwritten instead of incremented. *)
add_or_insert_overwrite(self, ket) ==
    IF NormIsZero(ket.amplitude) THEN self
    ELSE IF HashFind(self.kets, ket) # {}
         THEN LET found_ket == CHOOSE k \in HashFind(self.kets, ket) : TRUE
                  taken == self.kets \ {found_ket}
              IN IF NormGtTol(ket.amplitude)
                 THEN State(self.num_qubits, HashInsert(taken, Ket(found_ket.bits, ket.amplitude)))
                 ELSE State(self.num_qubits, taken)
         ELSE State(self.num_qubits, HashInsert(self.kets, ket))

(* Mutant: no early return for a zero amplitude. *)
add_or_insert_no_zero_check(self, ket) ==
    IF HashFind(self.kets, ket) # {}
    THEN LET found_ket == CHOOSE k \in HashFind(self.kets, ket) : TRUE
             taken == self.kets \ {found_ket}
             sum == AmpAdd(found_ket.amplitude, ket.amplitude)
         IN IF NormGtTol(sum)
            THEN State(self.num_qubits, HashInsert(taken, Ket(found_ket.bits, sum)))
            ELSE State(self.num_qubits, taken)
    ELSE State(self.num_qubits, HashInsert(self.kets, ket))

add_or_insert(self, ket) ==
    IF NormIsZero(ket.amplitude) THEN self
    ELSE IF HashFind(self.kets, ket) # {}
         THEN LET found_ket == CHOOSE k \in HashFind(self.kets, ket) : TRUE
                  taken == self.kets \ {found_ket}
                  sum == AmpAdd(found_ket.amplitude, ket.amplitude)
              IN IF NormGtTol(sum)
                 THEN State(self.num_qubits, HashInsert(taken, Ket(found_ket.bits, sum)))
                 ELSE State(self.num_qubits, taken)
         ELSE State(self.num_qubits, HashInsert(self.kets, ket))

remove(self, ket) == State(self.num_qubits, HashRemove(self.kets, ket))

remove_zero_amplitude_kets(self) ==
    State(self.num_qubits, {k \in self.kets : ~NormIsZero(k.amplitude)})

RECURSIVE add_all(_, _)
add_all(self, kets) ==
    IF kets = << >> THEN self
    ELSE add_all(add_or_insert(self, Head(kets)), Tail(kets))

(* A call either returns a State or panics. *)
Returned(st) == [panic |-> FALSE, state |-> st]
Panicked == [panic |-> TRUE, state |-> State_new(0)]

(* How from_ket_vec ends: kets[0] panics on an empty list, the width loop   *)
(* panics on a ket of another width, otherwise the State is returned.      *)
from_ket_vec_path(kets) ==
    IF kets = << >> THEN "index_out_of_bounds"
    ELSE IF \E i \in 1..Len(kets) : Len(kets[i].bits) # Len(kets[1].bits)
         THEN "width_mismatch" ELSE "ok"

from_ket_vec(kets) ==
    IF kets = << >> THEN Panicked
    ELSE LET num_qubits == Len(kets[1].bits)
         IN IF \E i \in 1..Len(kets) : Len(kets[i].bits) # num_qubits
            THEN Panicked
            ELSE Returned(add_all(State_new(num_qubits), kets))

(* impl PartialEq for State: the qubit counts and HashSet<Ket> equality,   *)
(* which is equal lengths and every ket of one contained in the other.     *)
HashSetEq(kets1, kets2) ==
    /\ Cardinality(kets1) = Cardinality(kets2)
    /\ \A k \in kets1 : HashFind(kets2, k) # {}

state_eq(self, other) ==
    self.num_qubits = other.num_qubits /\ HashSetEq(self.kets, other.kets)

(* Ket's Equivalency: equal bits and amplitudes closer than the tolerance. *)
ket_are_equivalent(k1, k2) ==
    /\ k1.bits = k2.bits
    /\ LET diff == AmpSub(k1.amplitude, k2.amplitude)
       IN /\ diff.hi = RZero
          /\ QSign(QSub(RNormSqr(diff.lo), Q(TolUnits * TolUnits, 0, 0))) < 0

(* BitVec's Ord, used by sort_by: lexicographic. *)
BitsLess(b1, b2) ==
    \/ Len(b1) < Len(b2) /\ \A i \in 1..Len(b1) : b1[i] = b2[i]
    \/ \E i \in 1..Len(b1) :
          /\ i <= Len(b2)
          /\ \A j \in 1..(i - 1) : b1[j] = b2[j]
          /\ b1[i] < b2[i]

RECURSIVE sort_by_bits(_)
sort_by_bits(kets) ==
    IF kets = {} THEN << >>
    ELSE LET least == CHOOSE k \in kets : \A o \in kets : ~BitsLess(o.bits, k.bits)
         IN <<least>> \o sort_by_bits(kets \ {least})

(* Mutant: the length comparison is left out, so zip stops at the shorter  *)
(* list.                                                                   *)
are_equivalent_no_len_check(self, other) ==
    IF self.num_qubits # other.num_qubits THEN FALSE
    ELSE LET our_ket_vec == sort_by_bits(self.kets)
             other_ket_vec == sort_by_bits(other.kets)
         IN \A i \in 1..Len(our_ket_vec) :
               i <= Len(other_ket_vec)
                   => ket_are_equivalent(our_ket_vec[i], other_ket_vec[i])

are_equivalent(self, other) ==
    IF self.num_qubits # other.num_qubits THEN FALSE
    ELSE IF Cardinality(self.kets) # Cardinality(other.kets) THEN FALSE
    ELSE LET our_ket_vec == sort_by_bits(self.kets)
             other_ket_vec == sort_by_bits(other.kets)
         IN \A i \in 1..Len(our_ket_vec) :
               ket_are_equivalent(our_ket_vec[i], other_ket_vec[i])

(***************************************************************************)
(* gates/gate.rs                                                           *)
(***************************************************************************)
Gate(tag, controls, target, gates) ==
    [tag |-> tag, controls |-> controls, target |-> target, gates |-> gates]

GateH(target) == Gate("H", << >>, target, << >>)
GateX(target) == Gate("X", << >>, target, << >>)
GateT(target) == Gate("T", << >>, target, << >>)
GateTDgr(target) == Gate("TDgr", << >>, target, << >>)
GateCX(control, target) == Gate("CX", <<control>>, target, << >>)
GateToffoli(controls, target) == Gate("Toffoli", controls, target, << >>)
GateComposite(gates) == Gate("Composite", << >>, 0, gates)

(* enum GateKetResult; an out-of-range Ket::get panics instead. *)
ResultKet(ket) == [tag |-> "Ket", kets |-> <<ket>>]
ResultKets(kets) == [tag |-> "Kets", kets |-> kets]
ResultNotImplemented == [tag |-> "NotImplemented", kets |-> << >>]
ResultPanic == [tag |-> "Panic", kets |-> << >>]

Scaled(ket, r) == Ket(ket.bits, AmpMul(ket.amplitude, r))

(* Mutant: the ket is cloned after the sign change, so the flipped branch  *)
(* is negated too.                                                         *)
apply_H_clone_after_sign(target, ket) ==
    IF ~InBounds(ket, target) THEN ResultPanic
    ELSE LET signed == IF get(ket, target) THEN Scaled(ket, RMinusOne) ELSE ket
         IN ResultKets(<<Scaled(signed, RInvSqrt2),
                         Scaled(flip(signed, target), RInvSqrt2)>>)

apply_H(target, ket) ==
    IF ~InBounds(ket, target) THEN ResultPanic
    ELSE LET flipped_ket == flip(ket, target)
             signed == IF get(ket, target) THEN Scaled(ket, RMinusOne) ELSE ket
         IN ResultKets(<<Scaled(signed, RInvSqrt2), Scaled(flipped_ket, RInvSqrt2)>>)

(* Mutant: X sets the bit instead of flipping it. *)
apply_X_set(target, ket) ==
    IF ~InBounds(ket, target) THEN ResultPanic
    ELSE ResultKet(Ket([ket.bits EXCEPT ![target + 1] = 1], ket.amplitude))

apply_X(target, ket) ==
    IF ~InBounds(ket, target) THEN ResultPanic ELSE ResultKet(flip(ket, target))

(* Mutant: the T arm is left as the placeholder. *)
apply_T_unimplemented(target, ket) == ResultNotImplemented

apply_T(target, ket) ==
    IF ~InBounds(ket, target) THEN ResultPanic
    ELSE IF get(ket, target) THEN ResultKet(Scaled(ket, ROmega)) ELSE ResultKet(ket)

(* Mutant: TDgr turns the phase the same way as T. *)
apply_TDgr_as_T(target, ket) ==
    IF ~InBounds(ket, target) THEN ResultPanic
    ELSE IF get(ket, target) THEN ResultKet(Scaled(ket, ROmega)) ELSE ResultKet(ket)

apply_TDgr(target, ket) ==
    IF ~InBounds(ket, target) THEN ResultPanic
    ELSE IF get(ket, target) THEN ResultKet(Scaled(ket, ROmegaInv)) ELSE ResultKet(ket)

(* Mutant: the target is flipped whatever the control bit is. *)
apply_CX_unconditional(control, target, ket) ==
    IF ~InBounds(ket, control) \/ ~InBounds(ket, target) THEN ResultPanic
    ELSE ResultKet(flip(ket, target))

apply_CX(control, target, ket) ==
    IF ~InBounds(ket, control) THEN ResultPanic
    ELSE IF get(ket, control)
         THEN IF ~InBounds(ket, target) THEN ResultPanic
              ELSE ResultKet(flip(ket, target))
         ELSE ResultKet(ket)

RECURSIVE apply_Toffoli(_, _, _)
apply_Toffoli(controls, target, ket) ==
    IF controls = << >>
    THEN IF ~InBounds(ket, target) THEN ResultPanic
         ELSE ResultKet(flip(ket, target))
    ELSE IF ~InBounds(ket, Head(controls)) THEN ResultPanic
         ELSE IF ~get(ket, Head(controls)) THEN ResultKet(ket)
              ELSE apply_Toffoli(Tail(controls), target, ket)

RECURSIVE apply_gate_to_ket(_, _)
RECURSIVE composite_stage(_, _)
RECURSIVE composite_fold(_, _)

(* One pass of the while-let loop: cur_kets is popped from its end and the *)
(* outputs are appended to result_kets.  A stage that panics, in Ket::get  *)
(* ("Panic") or on the placeholder ("NotImplemented"), ends the fold with  *)
(* that panic.                                                             *)
composite_stage(gate, cur_kets) ==
    IF cur_kets = << >> THEN ResultKets(<< >>)
    ELSE LET n == Len(cur_kets)
             r == apply_gate_to_ket(gate, cur_kets[n])
         IN IF r.tag \in {"Panic", "NotImplemented"} THEN r
            ELSE LET rest == composite_stage(gate, SubSeq(cur_kets, 1, n - 1))
                 IN IF rest.tag \in {"Panic", "NotImplemented"} THEN rest
                    ELSE ResultKets(r.kets \o rest.kets)

(* Mutant: the single-ket case is not told apart at the end. *)
RECURSIVE composite_fold_always_kets(_, _)
composite_fold_always_kets(gates, cur_kets) ==
    IF gates = << >> THEN ResultKets(cur_kets)
    ELSE LET staged == composite_stage(Head(gates), cur_kets)
         IN IF staged.tag \in {"Panic", "NotImplemented"} THEN staged
            ELSE composite_fold_always_kets(Tail(gates), staged.kets)

composite_fold(gates, cur_kets) ==
    IF gates = << >>
    THEN IF Len(cur_kets) = 1 THEN ResultKet(cur_kets[1]) ELSE ResultKets(cur_kets)
    ELSE LET staged == composite_stage(Head(gates), cur_kets)
         IN IF staged.tag \in {"Panic", "NotImplemented"} THEN staged
            ELSE composite_fold(Tail(gates), staged.kets)

apply_gate_to_ket(gate, ket) ==
    CASE gate.tag = "H" -> apply_H(gate.target, ket)
      [] gate.tag = "X" -> apply_X(gate.target, ket)
      [] gate.tag = "T" -> apply_T(gate.target, ket)
      [] gate.tag = "TDgr" -> apply_TDgr(gate.target, ket)
      [] gate.tag = "CX" -> apply_CX(gate.controls[1], gate.target, ket)
      [] gate.tag = "Toffoli" -> apply_Toffoli(gate.controls, gate.target, ket)
      [] gate.tag = "Composite" -> composite_fold(gate.gates, <<ket>>)

(* for ket in state.kets: the HashSet is iterated in an order the code     *)
(* does not control.  Every order is followed: a configuration is the set  *)
(* of kets not yet visited and the new_state built so far.                 *)
RECURSIVE apply_loop(_, _)
apply_loop(configs, outs) ==
    IF \A c \in configs : c.todo = {} THEN {c.new_state : c \in configs}
    ELSE apply_loop(
            UNION {{[todo |-> c.todo \ {ket},
                     new_state |-> add_all(c.new_state, outs[ket].kets)]
                    : ket \in c.todo} : c \in configs},
            outs)

(* Mutant: the outputs are accumulated into the input State instead of a   *)
(* fresh one.                                                              *)
apply_gate_to_state_in_place(state, gate) ==
    LET outs == [ket \in state.kets |-> apply_gate_to_ket(gate, ket)]
    IN IF \E ket \in state.kets : outs[ket].tag \in {"Panic", "NotImplemented"}
       THEN {Panicked}
       ELSE {Returned(st) :
               st \in apply_loop({[todo |-> state.kets, new_state |-> state]}, outs)}

apply_gate_to_state(state, gate) ==
    LET outs == [ket \in state.kets |-> apply_gate_to_ket(gate, ket)]
    IN IF \E ket \in state.kets : outs[ket].tag \in {"Panic", "NotImplemented"}
       THEN {Panicked}
       ELSE {Returned(st) :
               st \in apply_loop({[todo |-> state.kets,
                                   new_state |-> State_new(state.num_qubits)]}, outs)}

(* How apply_gate_to_state ends: with the gate applied, or with the panic  *)
(* of the ket that stopped it.                                             *)
apply_gate_to_state_paths(state, gate) ==
    LET tags == {apply_gate_to_ket(gate, ket).tag : ket \in state.kets}
    IN IF tags \cap {"Panic", "NotImplemented"} = {} THEN {gate.tag}
       ELSE {IF t = "Panic" THEN "index_out_of_bounds" ELSE "not_implemented"
             : t \in tags \cap {"Panic", "NotImplemented"}}

(***************************************************************************)
(* Inputs.  The values every operation is examined on at each reachable    *)
(* State ...                                                               *)
(***************************************************************************)
Widths == 0..MaxQubits

Targets == 0..(MaxQubits - 1)

BitVecs == UNION {[1..w -> Bit] : w \in Widths}

InputAmps == {AmpZero, AmpOne, AmpMinusOne, AmpTol, AmpMinusTol, AmpHalfTol}

InputKets == {Ket(b, z) : b \in BitVecs, z \in InputAmps}

ControlLists ==
    {<< >>} \cup {<<c>> : c \in Targets}
    \cup {<<c1, c2>> : c1 \in Targets, c2 \in Targets}

PrimitiveGates ==
    {GateH(t) : t \in Targets} \cup {GateX(t) : t \in Targets}
    \cup {GateT(t) : t \in Targets} \cup {GateTDgr(t) : t \in Targets}
    \cup {GateCX(c, t) : c \in Targets, t \in Targets}
    \cup {GateToffoli(cs, t) : cs \in ControlLists, t \in Targets}

CompositeGates ==
    {GateComposite(<< >>),
     GateComposite(<<GateX(0), GateX(1)>>),
     GateComposite(<<GateH(0), GateH(0)>>),
     GateComposite(<<GateH(0), GateT(0)>>),
     GateComposite(<<GateCX(0, 0)>>),
     GateComposite(<<GateComposite(<<GateH(0)>>), GateH(0)>>)}

InputGates == PrimitiveGates \cup CompositeGates

(***************************************************************************)
(* ... and the calls the program makes on its way there.                   *)
(***************************************************************************)
CallKets ==
    {Ket(b, z) : b \in {<<0>>, <<1>>, <<0, 0>>, <<1, 1>>},
                 z \in {AmpOne, AmpMinusOne, AmpTol}}
    \cup {Ket(<<0>>, AmpZero), Ket(<<0, 1, 0>>, AmpZero), Ket(<<1>>, AmpHalfTol),
          Ket(<<1>>, AmpNearMinusTwo)}

ListKets ==
    {Ket(<<0>>, AmpOne), Ket(<<1>>, AmpOne), Ket(<<1>>, AmpHalfTol),
     Ket(<<0, 0>>, AmpOne), Ket(<<1, 1>>, AmpOne)}

CallLists == UNION {[1..n -> ListKets] : n \in 0..MaxListLen}

CallGates ==
    {GateH(0), GateH(1), GateX(0), GateX(1), GateT(0), GateTDgr(0),
     GateCX(0, 1), GateCX(1, 0), GateCX(0, 0),
     GateToffoli(<<0>>, 1), GateToffoli(<<0, 1>>, 1), GateToffoli(<<1, 0>>, 0),
     GateComposite(<< >>),
     GateComposite(<<GateX(0), GateX(1)>>),
     GateComposite(<<GateH(0), GateH(0)>>)}

(***************************************************************************)
(* The program: one State value, built by a constructor and then mutated   *)
(* or replaced by the result of a gate.                                    *)
(***************************************************************************)
VARIABLES state, status, last, steps

vars == <<state, status, last, steps>>

Done(op, path) == [op |-> op, path |-> path]

Init ==
    /\ state = State_new(0)
    /\ status = "none"
    /\ last = Done("none", "none")
    /\ steps = 0

New(num_qubits) ==
    /\ status = "none"
    /\ state' = State_new(num_qubits)
    /\ status' = "ok"
    /\ last' = Done("new", "ok")
    /\ UNCHANGED steps

FromKetVec(kets) ==
    /\ status = "none"
    /\ LET r == from_ket_vec(kets)
       IN /\ state' = r.state
          /\ status' = IF r.panic THEN "panic" ELSE "ok"
          /\ last' = Done("from_ket_vec", from_ket_vec_path(kets))
    /\ UNCHANGED steps

AddOrInsert(ket) ==
    /\ status = "ok"
    /\ steps < MaxSteps
    /\ state' = add_or_insert(state, ket)
    /\ last' = Done("add_or_insert", add_or_insert_path(state, ket))
    /\ steps' = steps + 1
    /\ UNCHANGED status

Remove(ket) ==
    /\ status = "ok"
    /\ steps < MaxSteps
    /\ state' = remove(state, ket)
    /\ last' = Done("remove", IF HashFind(state.kets, ket) = {} THEN "absent" ELSE "removed")
    /\ steps' = steps + 1
    /\ UNCHANGED status

RemoveZeroAmplitudeKets ==
    /\ status = "ok"
    /\ steps < MaxSteps
    /\ state' = remove_zero_amplitude_kets(state)
    /\ last' = Done("remove_zero_amplitude_kets", "ok")
    /\ steps' = steps + 1
    /\ UNCHANGED status

ApplyGate(gate) ==
    /\ status = "ok"
    /\ steps < MaxSteps
    /\ \E r \in apply_gate_to_state(state, gate) :
          \E path \in apply_gate_to_state_paths(state, gate) :
              /\ state' = r.state
              /\ status' = IF r.panic THEN "panic" ELSE "ok"
              /\ last' = Done("apply_gate_to_state", path)
    /\ steps' = steps + 1

Next ==
    \/ \E n \in Widths : New(n)
    \/ \E kets \in CallLists : FromKetVec(kets)
    \/ \E ket \in CallKets : AddOrInsert(ket)
    \/ \E ket \in ListKets : Remove(ket)
    \/ RemoveZeroAmplitudeKets
    \/ \E gate \in CallGates : ApplyGate(gate)

Spec == Init /\ [][Next]_vars

(***************************************************************************)
(* Properties.                                                             *)
(***************************************************************************)
Live == status = "ok"

(* C1: in every reachable State no two stored kets have the same bit       *)
(* pattern.                                                                *)
C1_NoTwoKetsShareBits ==
    Live => \A k1 \in state.kets : \A k2 \in state.kets :
                k1.bits = k2.bits => k1 = k2

(* C1 witness: add_or_insert met a stored ket with the bits of its         *)
(* argument and merged the two into one entry.                             *)
C1_Witness ==
    /\ Live
    /\ last = Done("add_or_insert", "merged")
    /\ Cardinality(state.kets) = 1

(* C2: in every reachable State every stored amplitude has magnitude above *)
(* the 1e-6 tolerance.                                                     *)
C2_NoNearZeroAmplitude ==
    Live => \A k \in state.kets : NormGtTol(k.amplitude)

(* C3: in every reachable State every stored ket is num_qubits wide.       *)
C3_KetWidthIsNumQubits ==
    Live => \A k \in state.kets : Len(k.bits) = state.num_qubits

(* C4: State == State holds only between States with the same qubit        *)
(* count, the same bit patterns and exactly equal amplitudes; checked      *)
(* between each reachable State and the States one add_or_insert away.     *)
SameContents(s1, s2) ==
    /\ s1.num_qubits = s2.num_qubits
    /\ {k.bits : k \in s1.kets} = {k.bits : k \in s2.kets}
    /\ \A k1 \in s1.kets : \A k2 \in s2.kets :
          k1.bits = k2.bits => k1.amplitude = k2.amplitude

C4_StrictEqualityComparesAmplitudes ==
    Live => \A ket \in InputKets :
               LET other == add_or_insert(state, ket)
               IN state_eq(state, other) => SameContents(state, other)

(* The sum of squared magnitudes of a State, as n0 + n1*1e-6 + n2*1e-12    *)
(* with n0, n1, n2 of the form (p + q*sqrt(2)) / 2^e.                      *)
AmpNormSqr(z) ==
    LET cross == RRe(RMul(z.hi, RConj(z.lo)))
    IN <<RNormSqr(z.hi), QAdd(cross, cross), RNormSqr(z.lo)>>

RECURSIVE NormSqrSum(_)
NormSqrSum(kets) ==
    IF kets = {} THEN <<QZero, QZero, QZero>>
    ELSE LET k == CHOOSE x \in kets : TRUE
             n == AmpNormSqr(k.amplitude)
             rest == NormSqrSum(kets \ {k})
         IN <<QAdd(n[1], rest[1]), QAdd(n[2], rest[2]), QAdd(n[3], rest[3])>>

(* The sign of x0 + x1*1e-6 + x2*1e-12: that of its first non-zero part.   *)
LimbSign(x) ==
    IF QSign(x[1]) # 0 THEN QSign(x[1])
    ELSE IF QSign(x[2]) # 0 THEN QSign(x[2]) ELSE QSign(x[3])

RECURSIVE CountH(_)
RECURSIVE CountHSeq(_)
CountHSeq(gates) ==
    IF gates = << >> THEN 0 ELSE CountH(Head(gates)) + CountHSeq(Tail(gates))

CountH(gate) ==
    IF gate.tag = "H" THEN 1
    ELSE IF gate.tag = "Composite" THEN CountHSeq(gate.gates) ELSE 0

RECURSIVE TargetApartFromControls(_)
TargetApartFromControls(gate) ==
    IF gate.tag = "Composite"
    THEN \A i \in 1..Len(gate.gates) : TargetApartFromControls(gate.gates[i])
    ELSE \A i \in 1..Len(gate.controls) : gate.controls[i] # gate.target

UnitaryGates == {g \in InputGates : TargetApartFromControls(g) /\ CountH(g) <= 1}

(* The sum of squared magnitudes of st is within 1e-6 of the sum n. *)
NormStays(n1, st) ==
    LET n2 == NormSqrSum(st.kets)
        d == <<QSub(n2[1], n1[1]), QSub(n2[2], n1[2]), QSub(n2[3], n1[3])>>
        tol == Q(TolUnits, 0, 0)
    IN /\ LimbSign(<<QNeg(d[1]), QSub(tol, d[2]), QNeg(d[3])>>) >= 0
       /\ LimbSign(<<d[1], QAdd(tol, d[2]), d[3]>>) >= 0

(* C5 as claimed: for every reachable State and every gate, CX with        *)
(* control = target and Toffoli with its target among its controls         *)
(* included, a returning apply_gate_to_state leaves the sum of squared     *)
(* magnitudes the same within tolerance.                                   *)
C5_NormPreservedByEveryGate ==
    Live => LET before == NormSqrSum(state.kets)
            IN \A gate \in InputGates : \A r \in apply_gate_to_state(state, gate) :
                  ~r.panic => NormStays(before, r.state)

(* C5 without the gates that break it: the same holds for H, X, T, TDgr,   *)
(* CX with control # target, Toffoli with its target not among its         *)
(* controls, and Composites of such gates that hold at most one H.         *)
C5_NormPreservedByUnitaryGates ==
    Live => LET before == NormSqrSum(state.kets)
            IN \A gate \in UnitaryGates : \A r \in apply_gate_to_state(state, gate) :
                  ~r.panic => NormStays(before, r.state)

(* An H gate was applied and two branches cancelled, leaving               *)
(* one ket whose squared magnitude is the sum of the two before.           *)
C5_Witness ==
    /\ Live
    /\ last = Done("apply_gate_to_state", "H")
    /\ state.kets = {Ket(<<0>>, Amp(R(0, 1, 0, -1, 0), RZero))}

(* A Composite that holds H twice and no gate with its target among its    *)
(* controls: the merge drops a partial sum and the total moves by more     *)
(* than the tolerance.                                                     *)
C5_NormPreservedWithRepeatedH ==
    Live => LET before == NormSqrSum(state.kets)
            IN \A gate \in {g \in InputGates : TargetApartFromControls(g)} :
                  \A r \in apply_gate_to_state(state, gate) :
                      ~r.panic => NormStays(before, r.state)

(* A target every stored ket can be indexed with (Ket::get's range).       *)
InRange(st, target) == \A k \in st.kets : InBounds(k, target)

(* The States a gate applied twice can return; a panic on the way is in    *)
(* the set too.                                                            *)
Twice(st, g1, g2) ==
    UNION {IF r1.panic THEN {r1} ELSE apply_gate_to_state(r1.state, g2)
           : r1 \in apply_gate_to_state(st, g1)}

(* C6: for every reachable State S and in-range t, H{t} applied twice      *)
(* returns a State equivalent to S.                                        *)
C6_HTwiceIsEquivalent ==
    Live => \A t \in Targets : InRange(state, t) =>
               \A r \in Twice(state, GateH(t), GateH(t)) :
                   ~r.panic /\ are_equivalent(r.state, state)

Phased(st, t, phase) ==
    State(st.num_qubits,
          {IF get(k, t) THEN Scaled(k, phase) ELSE k : k \in st.kets})

AmpsAt(st, bits) == {k.amplitude : k \in {x \in st.kets : x.bits = bits}}

SameWidth(kets) == \A i \in 1..Len(kets) : \A j \in 1..Len(kets) :
                      Len(kets[i].bits) = Len(kets[j].bits)

RECURSIVE InsertedInOrder(_, _, _)
InsertedInOrder(st, kets, i) ==
    IF i > Len(kets) THEN st
    ELSE InsertedInOrder(add_or_insert(st, kets[i]), kets, i + 1)

C11_FromKetVecBuildsOrRejects ==
    /\ (last.op = "from_ket_vec" /\ status = "panic") => last.path = "width_mismatch"
    /\ \A kets \in CallLists \ {<< >>} :
          LET r == from_ket_vec(kets)
          IN IF ~SameWidth(kets)
             THEN r.panic /\ from_ket_vec_path(kets) = "width_mismatch"
             ELSE /\ ~r.panic
                  /\ \A i \in 1..Len(kets) : r.state.num_qubits = Len(kets[i].bits)
                  /\ \E n \in Widths : r.state = InsertedInOrder(State_new(n), kets, 1)

(* Some operand index of the gate (target, control, element of a control   *)
(* list, at any depth of a Composite) is >= width.                         *)
RECURSIVE OperandOutOfRange(_, _)
OperandOutOfRange(gate, width) ==
    IF gate.tag = "Composite"
    THEN \E i \in 1..Len(gate.gates) : OperandOutOfRange(gate.gates[i], width)
    ELSE \/ gate.target >= width
         \/ \E i \in 1..Len(gate.controls) : gate.controls[i] >= width

(* C12: in every reachable State, applying a gate with an operand index    *)
(* >= num_qubits fails and returns no State, whatever the stored bits and  *)
(* however many kets are stored.                                           *)
C12_OutOfRangeOperandAlwaysFails ==
    Live => \A gate \in InputGates :
               OperandOutOfRange(gate, state.num_qubits)
                   => \A r \in apply_gate_to_state(state, gate) : r.panic

(* The bit patterns a State stores. *)
BitsOf(st) == {k.bits : k \in st.kets}

(* The States compared with a reachable State S: S itself, S with another  *)
(* qubit count, S after one add_or_insert (a new bit pattern, or a stored  *)
(* amplitude moved by 1 or 0.5e-6) and S without one of its kets.          *)
NeighbourKets(st) ==
    {Ket(b, z) : b \in BitsOf(st) \cup {[i \in 1..st.num_qubits |-> 0]},
                 z \in {AmpOne, AmpHalfTol}}

Neighbours(st) ==
    {st} \cup {State(n, st.kets) : n \in Widths}
    \cup {add_or_insert(st, ket) : ket \in NeighbourKets(st)}
    \cup {remove(st, k) : k \in st.kets}

(* Same qubit count, same bit patterns, amplitudes within tolerance on     *)
(* every bit pattern.                                                      *)
SameWithinTolerance(s1, s2) ==
    /\ s1.num_qubits = s2.num_qubits
    /\ {k.bits : k \in s1.kets} = {k.bits : k \in s2.kets}
    /\ \A k1 \in s1.kets : \A k2 \in s2.kets :
          k1.bits = k2.bits => ket_are_equivalent(k1, k2)

(* C13: are_equivalent(A, B) is true exactly when A and B have the same    *)
(* qubit count, the same bit patterns and amplitudes within tolerance on   *)
(* each, and it is symmetric; checked between each reachable State and     *)
(* its neighbours.                                                         *)
C13_AreEquivalentIsSetEquivalence ==
    Live => \A other \in Neighbours(state) :
               LET same == SameWithinTolerance(state, other)
               IN /\ are_equivalent(state, other) = same
                  /\ are_equivalent(other, state) = same

(* C13 witness: a State of two kets that is equivalent to, and different   *)
(* from, the State with one amplitude moved by less than the tolerance.    *)
C13_Witness ==
    /\ Live
    /\ Cardinality(state.kets) = 2
    /\ \E other \in Neighbours(state) :
          /\ are_equivalent(state, other)
          /\ \E k1 \in state.kets : \E k2 \in other.kets :
                k1.bits = k2.bits /\ k1.amplitude # k2.amplitude

(* The outcomes of applying the gates one after the other with             *)
(* apply_gate_to_state, starting from st.                                  *)
RECURSIVE Inlined(_, _)
Inlined(st, gates) ==
    IF gates = << >> THEN {Returned(st)}
    ELSE UNION {IF r.panic THEN {r} ELSE Inlined(r.state, Tail(gates))
                : r \in apply_gate_to_state(st, Head(gates))}

(* C14: in every reachable State S, applying Composite{g1..gn} gives a     *)
(* State equivalent to applying g1, ..., gn in order (and fails when that  *)
(* fails); Composite[X{0}, X{1}] on the 2-qubit zero State gives the one   *)
(* ket (1,1) with amplitude 1.                                             *)
C14_CompositeIsInlining ==
    Live => \A gate \in CompositeGates :
               /\ \A r1 \in apply_gate_to_state(state, gate) :
                     \A r2 \in Inlined(state, gate.gates) :
                         /\ r1.panic = r2.panic
                         /\ ~r1.panic => are_equivalent(r1.state, r2.state)
               /\ (state = State(2, {new_zero_ket(2)})
                      /\ gate = GateComposite(<<GateX(0), GateX(1)>>))
                     => apply_gate_to_state(state, gate)
                           = {Returned(State(2, {Ket(<<1, 1>>, AmpOne)}))}

(* Every bit pattern, with amplitude -1. *)
BasisKets == {Ket(b, AmpMinusOne) : b \in BitVecs}

(* The kets apply_gate_to_ket is examined on: the kets stored in the        *)
(* reachable State and, once per constructed State, every bit pattern and  *)
(* the ground ket of every width.                                          *)
ProbeKets ==
    state.kets \cup (IF steps = 0
                     THEN BasisKets \cup {new_zero_ket(n) : n \in Widths}
                     ELSE {})

(* C15: for every gate, at any nesting depth, and every ket that all its   *)
(* operand indices are in range of, apply_gate_to_ket returns the Ket or   *)
(* the Kets variant, never NotImplemented (nor a panic): every gate on     *)
(* every bit pattern and on the kets of every constructed State; and no    *)
(* apply_gate_to_state the program makes ends in the "Gate not             *)
(* implemented" panic.                                                     *)
C15_NotImplementedNeverProduced ==
    /\ last.path # "not_implemented"
    /\ (Live /\ steps = 0) => \A gate \in InputGates : \A ket \in ProbeKets :
                  ~OperandOutOfRange(gate, Len(ket.bits))
                      => apply_gate_to_ket(gate, ket).tag \in {"Ket", "Kets"}

(* C15 witness: a Composite was applied to a State that stores kets and    *)
(* returned.                                                               *)
C15_Witness ==
    /\ Live
    /\ last = Done("apply_gate_to_state", "Composite")
    /\ state.kets # {}

(* C16: for every ket k and in-range t, apply_gate_to_ket(H{t}, k) is the   *)
(* Kets variant with exactly two kets of the width of k: first the bits of *)
(* k with amplitude k.amplitude/sqrt(2), negated if bit t of k is set,     *)
(* then the bits of k with bit t flipped and amplitude                     *)
(* k.amplitude/sqrt(2).  The 1-qubit ground ket gives (0) and (1), each    *)
(* with 1/sqrt(2).                                                         *)
C16_HSplitsIntoTwoKets ==
    Live => \A ket \in ProbeKets : \A t \in Targets :
               InBounds(ket, t) =>
                   LET r == apply_gate_to_ket(GateH(t), ket)
                       half == AmpMul(ket.amplitude, RInvSqrt2)
                       kept == IF ket.bits[t + 1] = 1
                               THEN AmpSub(AmpZero, half) ELSE half
                   IN /\ r.tag = "Kets"
                      /\ Len(r.kets) = 2
                      /\ r.kets[1] = [bits |-> ket.bits, amplitude |-> kept]
                      /\ r.kets[2].amplitude = half
                      /\ Len(r.kets[2].bits) = Len(ket.bits)
                      /\ \A i \in 1..Len(ket.bits) :
                            r.kets[2].bits[i] =
                                IF i = t + 1 THEN 1 - ket.bits[i] ELSE ket.bits[i]
                      /\ (ket = new_zero_ket(1)) =>
                            r.kets = <<Ket(<<0>>, Amp(RInvSqrt2, RZero)),
                                       Ket(<<1>>, Amp(RInvSqrt2, RZero))>>

(* C16 witness: H was applied to a stored ket whose bit was set, leaving   *)
(* the negated amplitude on the kept bits.                                 *)
C16_Witness ==
    /\ Live
    /\ last = Done("apply_gate_to_state", "H")
    /\ state.kets = {Ket(<<1>>, Amp(RNeg(RInvSqrt2), RZero)),
                     Ket(<<0>>, Amp(RInvSqrt2, RZero))}

(* C17: for CX{c,t} and Toffoli{controls,t} with every index in range of   *)
(* the ket, apply_gate_to_ket returns one ket with the input amplitude,    *)
(* whose bits are the input bits with bit t flipped if every control bit   *)
(* is set in the input and the input bits otherwise; (1,1) under CX{0,1}   *)
(* gives (1,0).                                                            *)
C17_ControlledFlip ==
    Live => \A gate \in {g \in PrimitiveGates : g.tag \in {"CX", "Toffoli"}} :
             \A ket \in ProbeKets :
               ~OperandOutOfRange(gate, Len(ket.bits)) =>
                   LET r == apply_gate_to_ket(gate, ket)
                       all_set == \A i \in 1..Len(gate.controls) :
                                     ket.bits[gate.controls[i] + 1] = 1
                   IN /\ r.tag = "Ket"
                      /\ Len(r.kets) = 1
                      /\ r.kets[1].amplitude = ket.amplitude
                      /\ Len(r.kets[1].bits) = Len(ket.bits)
                      /\ \A i \in 1..Len(ket.bits) :
                            r.kets[1].bits[i] =
                                IF all_set /\ i = gate.target + 1
                                THEN 1 - ket.bits[i] ELSE ket.bits[i]
                      /\ (gate = GateCX(0, 1) /\ ket.bits = <<1, 1>>)
                            => r.kets[1].bits = <<1, 0>>

(* C17 witness: CX was applied to a State and left a ket on bits (1,0),    *)
(* the target flipped under a set control.                                 *)
C17_Witness ==
    /\ Live
    /\ last = Done("apply_gate_to_state", "CX")
    /\ \E k \in state.kets : k.bits = <<1, 0>>

(* The kets of a sequence, as a set. *)
Range(seq) == {seq[i] : i \in 1..Len(seq)}

(* The orders a set of kets can be visited in. *)
Orders(kets) ==
    {o \in [1..Cardinality(kets) -> kets] :
        \A i \in DOMAIN o : \A j \in DOMAIN o : o[i] = o[j] => i = j}

(* The kets apply_gate_to_ket produces for the kets of order, one after    *)
(* the other.                                                              *)
RECURSIVE OutputsInOrder(_, _)
OutputsInOrder(outs, order) ==
    IF order = << >> THEN << >>
    ELSE outs[Head(order)].kets \o OutputsInOrder(outs, Tail(order))

(* The gates the rebuild is examined under: one of each kind of output.   *)
RebuildGates ==
    {GateH(0), GateX(0), GateT(0), GateCX(0, 1), GateToffoli(<<0>>, 1),
     GateComposite(<<GateX(0), GateX(1)>>)}

(* C18: a returning apply_gate_to_state(S, g) has the qubit count of S and *)
(* exactly the contents add_or_insert builds in an empty State from the    *)
(* kets apply_gate_to_ket(g, k) produces for the kets k of S, visited in    *)
(* some order; every such order is a possible result, and every bit        *)
(* pattern of the result is that of an output.  States of up to            *)
(* MaxOrderedKets kets.                                                    *)
C18_ApplyGateToStateRebuilds ==
    (Live /\ Cardinality(state.kets) <= MaxOrderedKets) =>
        LET orders == Orders(state.kets)
        IN \A gate \in RebuildGates :
            LET results == apply_gate_to_state(state, gate)
                outs == [ket \in state.kets |-> apply_gate_to_ket(gate, ket)]
            IN (\A r \in results : ~r.panic) =>
                 /\ {r.state : r \in results} =
                       {add_all(State_new(state.num_qubits), OutputsInOrder(outs, o))
                        : o \in orders}
                 /\ \A r \in results :
                       /\ r.state.num_qubits = state.num_qubits
                       /\ BitsOf(r.state) \subseteq
                             UNION {{k.bits : k \in Range(outs[ket].kets)}
                                    : ket \in state.kets}

(* C18 witness: X was applied to a State and returned one ket; the bits    *)
(* it held before are not in the result.                                   *)
C18_Witness ==
    /\ Live
    /\ last = Done("apply_gate_to_state", "X")
    /\ state.kets = {Ket(<<1>>, AmpOne)}

(* C19: the bit patterns stored after add_or_insert-ing the same kets do   *)
(* not depend on the order of insertion: on every reachable State two      *)
(* further kets leave the same bit patterns in either order, and every     *)
(* iteration order of apply_gate_to_state leaves the same bit patterns.    *)
C19_SurvivorsIndependentOfOrder ==
    Live =>
        /\ \A k1 \in InputKets : \A k2 \in InputKets :
              BitsOf(add_or_insert(add_or_insert(state, k1), k2))
                  = BitsOf(add_or_insert(add_or_insert(state, k2), k1))
        /\ \A gate \in CallGates :
              \A r1 \in apply_gate_to_state(state, gate) :
                  \A r2 \in apply_gate_to_state(state, gate) :
                      BitsOf(r1.state) = BitsOf(r2.state)

(* C20: for a Composite and a ket all its operand indices are in range     *)
(* of, apply_gate_to_ket returns exactly 2^h kets, h the number of H gates *)
(* at any depth, unmerged; as the Ket variant when that is one ket (the    *)
(* empty sequence returns the ket itself) and as the Kets variant          *)
(* otherwise.  Composite[H{0}, H{0}] returns four kets, and                *)
(* Composite[H{0}, T{0}] on the 1-qubit ground ket applies H first.        *)
C20_CompositeKeepsKetsUnmerged ==
    Live => \A gate \in CompositeGates :
             \A ket \in ProbeKets :
               ~OperandOutOfRange(gate, Len(ket.bits)) =>
                   LET r == apply_gate_to_ket(gate, ket)
                   IN /\ Len(r.kets) = Pow2(CountH(gate))
                      /\ r.tag = IF Len(r.kets) = 1 THEN "Ket" ELSE "Kets"
                      /\ gate.gates = << >> => r = ResultKet(ket)
                      /\ gate = GateComposite(<<GateH(0), GateH(0)>>)
                            => /\ Len(r.kets) = 4
                               /\ Cardinality({k.bits : k \in Range(r.kets)}) = 2
                      /\ (gate = GateComposite(<<GateH(0), GateT(0)>>)
                             /\ ket = new_zero_ket(1))
                            => Range(r.kets) =
                                  {Ket(<<0>>, Amp(RInvSqrt2, RZero)),
                                   Ket(<<1>>, Amp(RMul(RInvSqrt2, ROmega), RZero))}

(* C20 witness: a Composite was applied to a State and left the one ket    *)
(* (1,1), as Composite[X{0}, X{1}] does on the 2-qubit ground ket.         *)
C20_Witness ==
    /\ Live
    /\ last = Done("apply_gate_to_state", "Composite")
    /\ state.kets = {Ket(<<1, 1>>, AmpOne)}

====
